---------------------------- MODULE Spec2Model ----------------------------
(***************************************************************************)
(* A model of the ai_api_backend canister (src/ai_api_backend/src/lib.rs): *)
(* the two entry points chat and http_request, the decoding of the request *)
(* body into an IncomingPayload, the mapping of incoming messages onto     *)
(* ic_llm::ChatMessage, the injection of SYSTEM_PROMPT and the call to the *)
(* LLM canister, which is the only suspension point of a call.             *)
(*                                                                         *)
(* Representation.  A Rust String on which the code works character by     *)
(* character (to_uppercase, starts_with, format!, into_bytes) is a         *)
(* sequence of characters; a character is a one-character string, or the   *)
(* name "U+xxxx" of its code point where TLA+ cannot write it.  A String   *)
(* that the code only moves and compares (role, content, header names and  *)
(* values) is a TLA+ string.  Option<T> is a sequence of length 0 or 1.    *)
(* The bytes of a request body are abstracted to the JSON document they    *)
(* spell (or to the fact that they spell none); the line and column that   *)
(* serde_json appends to an error text depend on the bytes and are left    *)
(* out of the text.                                                        *)
(***************************************************************************)
EXTENDS Integers, Sequences, FiniteSets, TLC

VARIABLES
    pc,        \* pc[c]: "idle", "awaiting" (suspended in chat.send()), "done", "trapped"
    call,      \* call[c]: the call being handled: an http_request or a direct chat call
    decodes,   \* decodes[c]: how many times serde_json::from_slice ran for the call
    chatArgs,  \* chatArgs[c]: the argument of every invocation of chat made for the call
    llm,       \* llm[c]: every request sent to the LLM canister for the call
    reply,     \* reply[c]: the Response of the LLM canister, as an Option
    resp,      \* resp[c]: every HttpResponse returned for the call
    text       \* text[c]: every String returned by chat for the call

vars == <<pc, call, decodes, chatArgs, llm, reply, resp, text>>

-----------------------------------------------------------------------------
(* Bounds of the model *)

\* Number of calls the canister handles in a concurrent run.
MaxCalls == 2

\* Largest number of messages in the payloads enumerated as request bodies.
MaxMsgs == 2

-----------------------------------------------------------------------------
(* Option *)

None == <<>>

Some(x) == <<x>>

\* unwrap_or_default with a text of its own for a missing content.
unwrap_or_placeholder(o) == IF o = None THEN <<"?">> ELSE o[1]

\* Option::unwrap_or_default for Option<String>, as a character sequence.
unwrap_or_default(o) == IF o = None THEN <<>> ELSE o[1]

-----------------------------------------------------------------------------
(* Characters, str::to_uppercase, str::starts_with, String::into_bytes *)

\* The printable ASCII characters in code order: Ascii[i] has code 31 + i.
Ascii ==
    <<" ", "!", "U+0022", "#", "$", "%", "&", "'", "(", ")", "*", "+", ",",
      "-", ".", "/", "0", "1", "2", "3", "4", "5", "6", "7", "8", "9", ":",
      ";", "<", "=", ">", "?", "@", "A", "B", "C", "D", "E", "F", "G", "H",
      "I", "J", "K", "L", "M", "N", "O", "P", "Q", "R", "S", "T", "U", "V",
      "W", "X", "Y", "Z", "[", "U+005C", "]", "^", "_", "U+0060", "a", "b",
      "c", "d", "e", "f", "g", "h", "i", "j", "k", "l", "m", "n", "o", "p",
      "q", "r", "s", "t", "u", "v", "w", "x", "y", "z", "{", "|", "}", "~">>

IsAscii(c) == \E i \in 1..Len(Ascii) : Ascii[i] = c

AsciiCode(c) == 31 + (CHOOSE i \in 1..Len(Ascii) : Ascii[i] = c)

\* char::to_uppercase on the characters of the model: the ASCII characters,
\* the line feed and the letter e with an acute accent in both cases.
char_to_uppercase(c) ==
    IF IsAscii(c)
    THEN IF AsciiCode(c) >= 97 /\ AsciiCode(c) <= 122
         THEN Ascii[AsciiCode(c) - 32 - 31]
         ELSE c
    ELSE IF c = "U+00E9" THEN "U+00C9" ELSE c

\* The characters of the model, and char_to_uppercase tabulated over them.
Chars == {Ascii[i] : i \in 1..Len(Ascii)} \cup {"U+000A", "U+00C9", "U+00E9"}

UpperOf == [c \in Chars |-> char_to_uppercase(c)]

to_uppercase(s) == [i \in 1..Len(s) |-> UpperOf[s[i]]]

\* starts_with as a comparison of the whole string.
starts_with_exact(s, prefix) == s = prefix

starts_with(s, prefix) ==
    /\ Len(s) >= Len(prefix)
    /\ SubSeq(s, 1, Len(prefix)) = prefix

\* The UTF-8 encoding of one character.
utf8(c) ==
    IF IsAscii(c) THEN <<AsciiCode(c)>>
    ELSE IF c = "U+000A" THEN <<10>>
    ELSE IF c = "U+00E9" THEN <<195, 169>>
    ELSE IF c = "U+00C9" THEN <<195, 137>>
    ELSE <<239, 191, 189>>

Utf8Of == [c \in Chars |-> utf8(c)]

RECURSIVE into_bytes(_)
into_bytes(s) == IF s = <<>> THEN <<>> ELSE Utf8Of[Head(s)] \o into_bytes(Tail(s))

-----------------------------------------------------------------------------
(* ic_llm::ChatMessage and the constants of the canister *)

SYSTEM_PROMPT == "You are a helpful assistant.\nAnswer user questions clearly and concisely."

MODEL == "Llama3_1_8B"

System(content) == [role |-> "System", content |-> content]

User(content) == [role |-> "User", content |-> content]

Assistant(content, tool_calls) ==
    [role |-> "Assistant", content |-> content, tool_calls |-> tool_calls]

Tool(content, tool_call_id) ==
    [role |-> "Tool", content |-> content, tool_call_id |-> tool_call_id]

-----------------------------------------------------------------------------
(* JSON documents and the request body *)

JNull == [t |-> "null"]

JStr(s) == [t |-> "str", s |-> s]

JArr(a) == [t |-> "arr", a |-> a]

\* An object is the sequence of its <<key, value>> members, in document order.
JObj(o) == [t |-> "obj", o |-> o]

\* A body: no bytes, bytes that are not JSON, or the bytes of a document.
EmptyBody == [k |-> "empty"]

GarbageBody == [k |-> "garbage"]

JsonBody(v) == [k |-> "json", v |-> v]

-----------------------------------------------------------------------------
(* serde_json::from_slice::<IncomingPayload> *)

Ok(v) == [ok |-> TRUE, v |-> v]

Err(kind, field) == [ok |-> FALSE, kind |-> kind, field |-> field]

\* String: a JSON string and nothing else.
deserialize_string(v) ==
    IF v.t = "str" THEN Ok(v.s) ELSE Err("invalid_type", "")

\* The value of a field, by the field's type: "messages" is the
\* Vec<IncomingMessage>, "role" and "content" are Strings.
RECURSIVE deserialize_field(_, _)

\* The derived visit_map of a struct with the fields `fields`: members are
\* visited in document order, a repeated field is an error, an unknown field
\* is skipped, and the fields still missing at the end are reported in
\* declaration order.
RECURSIVE visit_map(_, _, _, _)
visit_map(o, i, fields, seen) ==
    IF i > Len(o)
    THEN LET missing == {j \in 1..Len(fields) : fields[j] \notin DOMAIN seen}
         IN  IF missing = {}
             THEN Ok(seen)
             ELSE Err("missing_field",
                      fields[CHOOSE j \in missing : \A k \in missing : j <= k])
    ELSE LET key == o[i][1]
             val == o[i][2]
         IN  IF \E j \in 1..Len(fields) : fields[j] = key
             THEN IF key \in DOMAIN seen
                  THEN Err("duplicate_field", key)
                  ELSE LET d == deserialize_field(key, val)
                       IN  IF d.ok
                           THEN visit_map(o, i + 1, fields,
                                          [f \in DOMAIN seen \cup {key} |->
                                              IF f = key THEN d.v ELSE seen[f]])
                           ELSE d
             ELSE visit_map(o, i + 1, fields, seen)

\* The derived visit_seq of the same struct: one element per field, in
\* declaration order; serde_json rejects elements left over.
RECURSIVE visit_seq(_, _, _, _)
visit_seq(a, i, fields, seen) ==
    IF i > Len(fields)
    THEN IF Len(a) > Len(fields) THEN Err("trailing_characters", "") ELSE Ok(seen)
    ELSE IF i > Len(a)
         THEN Err("invalid_length", "")
         ELSE LET d == deserialize_field(fields[i], a[i])
              IN  IF d.ok
                  THEN visit_seq(a, i + 1, fields,
                                 [f \in DOMAIN seen \cup {fields[i]} |->
                                     IF f = fields[i] THEN d.v ELSE seen[f]])
                  ELSE d

deserialize_struct(v, fields) ==
    IF v.t = "obj" THEN visit_map(v.o, 1, fields, <<>>)
    ELSE IF v.t = "arr" THEN visit_seq(v.a, 1, fields, <<>>)
    ELSE Err("invalid_type", "")

\* struct IncomingMessage { role: String, content: String }
IncomingMessage(v) ==
    LET d == deserialize_struct(v, <<"role", "content">>)
    IN  IF d.ok THEN Ok([role |-> d.v["role"], content |-> d.v["content"]]) ELSE d

\* Vec<IncomingMessage>: the elements in order, the first error wins.
RECURSIVE deserialize_vec(_, _, _)
deserialize_vec(a, i, out) ==
    IF i > Len(a)
    THEN Ok(out)
    ELSE LET d == IncomingMessage(a[i])
         IN  IF d.ok THEN deserialize_vec(a, i + 1, Append(out, d.v)) ELSE d

deserialize_messages(v) ==
    IF v.t = "arr" THEN deserialize_vec(v.a, 1, <<>>) ELSE Err("invalid_type", "")

deserialize_field(field, v) ==
    IF field = "messages" THEN deserialize_messages(v) ELSE deserialize_string(v)

\* struct IncomingPayload { messages: Vec<IncomingMessage> }
IncomingPayload(v) ==
    LET d == deserialize_struct(v, <<"messages">>)
    IN  IF d.ok THEN Ok([messages |-> d.v["messages"]]) ELSE d

\* from_slice with `messages` optional, as #[serde(default)] would make it.
from_slice_default(body) ==
    IF body.k = "empty" THEN Err("eof", "")
    ELSE IF body.k = "garbage" THEN Err("expected_value", "")
    ELSE LET d == IncomingPayload(body.v)
         IN  IF ~d.ok /\ d.kind = "missing_field" /\ d.field = "messages"
             THEN Ok([messages |-> <<>>])
             ELSE d

from_slice(body) ==
    IF body.k = "empty" THEN Err("eof", "")
    ELSE IF body.k = "garbage" THEN Err("expected_value", "")
    ELSE IncomingPayload(body.v)

-----------------------------------------------------------------------------
(* The text of a decoding error, and the texts of the responses *)

\* A field name as characters, as the error text spells it.
FieldName(f) ==
    IF f = "messages" THEN <<"m", "e", "s", "s", "a", "g", "e", "s">>
    ELSE IF f = "role" THEN <<"r", "o", "l", "e">>
    ELSE IF f = "content" THEN <<"c", "o", "n", "t", "e", "n", "t">>
    ELSE <<>>

\* impl Display for serde_json::Error, without the line and the column.
Display(e) ==
    IF e.kind = "eof"
    THEN <<"E", "O", "F", " ", "w", "h", "i", "l", "e", " ", "p", "a", "r", "s",
           "i", "n", "g", " ", "a", " ", "v", "a", "l", "u", "e">>
    ELSE IF e.kind = "expected_value"
    THEN <<"e", "x", "p", "e", "c", "t", "e", "d", " ", "v", "a", "l", "u", "e">>
    ELSE IF e.kind = "trailing_characters"
    THEN <<"t", "r", "a", "i", "l", "i", "n", "g", " ", "c", "h", "a", "r", "a",
           "c", "t", "e", "r", "s">>
    ELSE IF e.kind = "missing_field"
    THEN <<"m", "i", "s", "s", "i", "n", "g", " ", "f", "i", "e", "l", "d", " ",
           "U+0060">> \o FieldName(e.field) \o <<"U+0060">>
    ELSE IF e.kind = "duplicate_field"
    THEN <<"d", "u", "p", "l", "i", "c", "a", "t", "e", " ", "f", "i", "e", "l",
           "d", " ", "U+0060">> \o FieldName(e.field) \o <<"U+0060">>
    ELSE IF e.kind = "invalid_length"
    THEN <<"i", "n", "v", "a", "l", "i", "d", " ", "l", "e", "n", "g", "t", "h">>
    ELSE <<"i", "n", "v", "a", "l", "i", "d", " ", "t", "y", "p", "e">>

\* format!("Invalid JSON: {e}")
format_invalid_json(e) ==
    <<"I", "n", "v", "a", "l", "i", "d", " ", "J", "S", "O", "N", ":", " ">>
        \o Display(e)

OPTIONS == <<"O", "P", "T", "I", "O", "N", "S">>

POST == <<"P", "O", "S", "T">>

chat_prefix == <<"/", "c", "h", "a", "t">>

\* b"Not Found"
not_found_bytes == <<78, 111, 116, 32, 70, 111, 117, 110, 100>>

-----------------------------------------------------------------------------
(* HttpRequest, HttpResponse *)

HttpRequest(method, url, body) ==
    [entry |-> "http_request", method |-> method, url |-> url, body |-> body]

HttpResponse(status, headers, body) ==
    [status |-> status, headers |-> headers, body |-> body]

\* The headers of the 200, 400 and 404 responses.
plain_headers ==
    << <<"Content-Type", "text/plain">>, <<"Access-Control-Allow-Origin", "*">> >>

preflight_response ==
    HttpResponse(204,
                 << <<"Access-Control-Allow-Origin", "*">>,
                    <<"Access-Control-Allow-Methods", "POST, OPTIONS">>,
                    <<"Access-Control-Allow-Headers", "Content-Type">> >>,
                 <<>>)

ok_response(reply_text) == HttpResponse(200, plain_headers, into_bytes(reply_text))

bad_request_response(e) ==
    HttpResponse(400, plain_headers, into_bytes(format_invalid_json(e)))

not_found_response == HttpResponse(404, plain_headers, not_found_bytes)

-----------------------------------------------------------------------------
(* The message loop of http_request and the head of chat *)

\* The match on the role lowered first: "System" is taken for "system".
map_message_ignoring_case(m) ==
    IF m.role \in {"system", "System"} THEN System(m.content)
    ELSE IF m.role = "assistant" THEN Assistant(Some(m.content), <<>>)
    ELSE IF m.role = "tool" THEN Tool(m.content, "")
    ELSE User(m.content)

\* One arm of `match m.role.as_str()`.
map_message(m) ==
    IF m.role = "system" THEN System(m.content)
    ELSE IF m.role = "assistant" THEN Assistant(Some(m.content), <<>>)
    ELSE IF m.role = "tool" THEN Tool(m.content, "")
    ELSE User(m.content)

\* for m in payload.messages { ... all_messages.push(...) }
RECURSIVE map_messages(_, _, _)

\* The loop inserting each turn at the front instead of pushing it.
map_messages_reversed(messages, i, all_messages) ==
    IF i > Len(messages)
    THEN all_messages
    ELSE map_messages(messages, i + 1, <<map_message(messages[i])>> \o all_messages)

map_messages(messages, i, all_messages) ==
    IF i > Len(messages)
    THEN all_messages
    ELSE map_messages(messages, i + 1, Append(all_messages, map_message(messages[i])))

\* chat leaving out the directive when the argument begins with a System turn.
chat_request_dedup(messages) ==
    IF messages # <<>> /\ messages[1].role = "System"
    THEN [model |-> MODEL, messages |-> messages]
    ELSE [model |-> MODEL, messages |-> <<System(SYSTEM_PROMPT)>> \o messages]

\* chat keeping the turns of the calls before it in a buffer of the canister.
chat_request_shared(messages) ==
    LET earlier == {c \in DOMAIN llm : llm[c] # <<>>}
        history == IF earlier = {} THEN <<>>
                   ELSE chatArgs[CHOOSE c \in earlier : TRUE][1]
    IN  [model |-> MODEL, messages |-> <<System(SYSTEM_PROMPT)>> \o history \o messages]

\* chat: vec![ChatMessage::System { SYSTEM_PROMPT }] extended by the argument,
\* as the request to the LLM canister.
chat_request(messages) ==
    [model |-> MODEL, messages |-> <<System(SYSTEM_PROMPT)>> \o messages]

\* The preflight test without to_uppercase.
is_preflight_exact(req) == req.method = OPTIONS

\* The chat route without the test of the method.
is_chat_route_any_method(req) == starts_with(req.url, chat_prefix)

\* The three routes of http_request.
is_preflight(req) == to_uppercase(req.method) = OPTIONS

is_chat_route(req) ==
    to_uppercase(req.method) = POST /\ starts_with(req.url, chat_prefix)

-----------------------------------------------------------------------------
(* The calls the environment makes *)

Methods ==
    { OPTIONS, <<"o", "p", "t", "i", "o", "n", "s">>,
      <<"O", "p", "T", "i", "O", "n", "S">>,
      POST, <<"p", "o", "s", "t">>, <<"P", "o", "s", "t">>,
      <<"P", "O", "S", "T", "S">>, <<"G", "E", "T">>, <<>> }

Urls ==
    { chat_prefix, <<"/", "c", "h", "a", "t", "/">>,
      <<"/", "c", "h", "a", "t", "1", "2", "3">>,
      <<"/", "c", "h", "a", "t", "b", "o", "t">>,
      <<"/", "c", "h", "a">>, <<"/", "C", "h", "a", "t">>,
      <<"/", "a", "p", "i", "/", "c", "h", "a", "t">>, <<"/">>, <<>> }

\* The (role, content) pairs the enumerated payloads are made of.
RawMessages ==
    { [role |-> "system", content |-> "be brief"],
      [role |-> "assistant", content |-> "hello"],
      [role |-> "tool", content |-> "42"],
      [role |-> "user", content |-> "hi"],
      [role |-> "user", content |-> ""],
      [role |-> "", content |-> "hi"],
      [role |-> "System", content |-> "x"],
      [role |-> "sytem", content |-> "y"] }

BoundedSeq(S, n) == UNION {[1..k -> S] : k \in 0..n}

JMessage(m) == JObj(<< <<"role", JStr(m.role)>>, <<"content", JStr(m.content)>> >>)

JPayload(ms) ==
    JObj(<< <<"messages", JArr([i \in 1..Len(ms) |-> JMessage(ms[i])])>> >>)

hi == [role |-> "user", content |-> "hi"]

\* Documents that spell a payload in another way than JPayload does.
OtherPayloads ==
    { JObj(<< <<"model", JStr("x")>>, <<"messages", JArr(<<JMessage(hi)>>)>> >>),
      JPayload(<<hi>>) @@ [o |-> << <<"messages", JArr(<<
          JObj(<< <<"content", JStr("hi")>>, <<"role", JStr("tool")>>,
                  <<"name", JNull>> >>) >>)>> >>],
      JArr(<< JArr(<< JArr(<<JStr("assistant"), JStr("hi")>>) >>) >>) }

\* Documents that are no payload.
NoPayloads ==
    { JObj(<<>>), JNull, JStr("hi"), JArr(<<>>),
      JObj(<< <<"messages", JNull>> >>),
      JObj(<< <<"messages", JStr("hi")>> >>),
      JObj(<< <<"message", JArr(<<JMessage(hi)>>)>> >>),
      JObj(<< <<"messages", JArr(<<>>)>>, <<"messages", JArr(<<>>)>> >>),
      JObj(<< <<"messages", JArr(<<JObj(<< <<"role", JStr("user")>> >>)>>)>> >>),
      JObj(<< <<"messages", JArr(<<JObj(<< <<"content", JStr("hi")>> >>)>>)>> >>),
      JObj(<< <<"messages", JArr(<<JObj(<<>>)>>)>> >>),
      JObj(<< <<"messages", JArr(<<JMessage(hi), JStr("hi")>>)>> >>),
      JObj(<< <<"messages", JArr(<<JObj(<< <<"role", JNull>>,
                                          <<"content", JStr("hi")>> >>)>>)>> >>),
      JObj(<< <<"messages", JArr(<<JObj(<< <<"role", JStr("user")>>,
          <<"role", JStr("tool")>>, <<"content", JStr("hi")>> >>)>>)>> >>),
      JArr(<< JArr(<<>>), JNull >>),
      JArr(<< JArr(<< JArr(<<JStr("user")>>) >>) >>) }

Bodies ==
    {EmptyBody, GarbageBody}
        \cup {JsonBody(JPayload(ms)) : ms \in BoundedSeq(RawMessages, MaxMsgs)}
        \cup {JsonBody(v) : v \in OtherPayloads \cup NoPayloads}

Requests == {HttpRequest(m, u, b) : m \in Methods, u \in Urls, b \in Bodies}

\* The arguments of the direct calls of chat.
DirectConversations ==
    { <<>>, <<User("hi")>>,
      <<System("be brief"), User("hi"), Assistant(None, <<>>), Tool("42", "t1")>> }

\* The Response of the LLM canister: message.content is an Option<String>.
Response(content) == [message |-> [content |-> content]]

Replies ==
    { Response(None), Response(Some(<<"H", "i">>)), Response(Some(<<"U+00E9">>)) }

\* The calls of the concurrent runs, one or two of each route and outcome.
ConcRequests ==
    { HttpRequest(OPTIONS, chat_prefix, EmptyBody),
      HttpRequest(<<"G", "E", "T">>, chat_prefix, JsonBody(JPayload(<<hi>>))),
      HttpRequest(POST, chat_prefix, GarbageBody),
      HttpRequest(POST, chat_prefix, JsonBody(JPayload(<<hi>>))),
      HttpRequest(<<"p", "o", "s", "t">>, <<"/", "c", "h", "a", "t", "/">>,
                  JsonBody(JPayload(<<hi>>))),
      HttpRequest(POST, chat_prefix,
                  JsonBody(JPayload(<<[role |-> "system", content |-> "be brief"],
                                      hi>>))) }

ConcConversations == { <<User("hi")>> }

ConcReplies == { Response(None), Response(Some(<<"H", "i">>)) }

-----------------------------------------------------------------------------
(* The state machine *)

NoCall == [entry |-> "none"]

InitOver(Calls) ==
    /\ pc = [c \in Calls |-> "idle"]
    /\ call = [c \in Calls |-> NoCall]
    /\ decodes = [c \in Calls |-> 0]
    /\ chatArgs = [c \in Calls |-> <<>>]
    /\ llm = [c \in Calls |-> <<>>]
    /\ reply = [c \in Calls |-> None]
    /\ resp = [c \in Calls |-> <<>>]
    /\ text = [c \in Calls |-> <<>>]

\* http_request, from its entry to its return or to the await inside chat.
http_request(c, req) ==
    /\ call' = [call EXCEPT ![c] = req]
    /\ IF is_preflight(req)
       THEN /\ resp' = [resp EXCEPT ![c] = Append(@, preflight_response)]
            /\ pc' = [pc EXCEPT ![c] = "done"]
            /\ UNCHANGED <<decodes, chatArgs, llm>>
       ELSE IF is_chat_route(req)
       THEN LET d == from_slice(req.body)
            IN  /\ decodes' = [decodes EXCEPT ![c] = @ + 1]
                /\ IF d.ok
                   THEN LET all_messages == map_messages(d.v.messages, 1, <<>>)
                        IN  /\ chatArgs' = [chatArgs EXCEPT ![c] = Append(@, all_messages)]
                            /\ llm' = [llm EXCEPT ![c] = Append(@, chat_request(all_messages))]
                            /\ pc' = [pc EXCEPT ![c] = "awaiting"]
                            /\ UNCHANGED resp
                   ELSE /\ resp' = [resp EXCEPT ![c] = Append(@, bad_request_response(d))]
                        /\ pc' = [pc EXCEPT ![c] = "done"]
                        /\ UNCHANGED <<chatArgs, llm>>
       ELSE /\ resp' = [resp EXCEPT ![c] = Append(@, not_found_response)]
            /\ pc' = [pc EXCEPT ![c] = "done"]
            /\ UNCHANGED <<decodes, chatArgs, llm>>
    /\ UNCHANGED <<reply, text>>

\* chat called as an update of its own, up to the await.
chat(c, messages) ==
    /\ call' = [call EXCEPT ![c] = [entry |-> "chat", messages |-> messages]]
    /\ chatArgs' = [chatArgs EXCEPT ![c] = Append(@, messages)]
    /\ llm' = [llm EXCEPT ![c] = Append(@, chat_request(messages))]
    /\ pc' = [pc EXCEPT ![c] = "awaiting"]
    /\ UNCHANGED <<decodes, reply, resp, text>>

\* The environment calls http_request with one of `requests`.
HttpRequestCall(c, requests) ==
    /\ pc[c] = "idle"
    /\ \E req \in requests : http_request(c, req)

\* The environment calls chat with one of `conversations`.
ChatCall(c, conversations) ==
    /\ pc[c] = "idle"
    /\ \E messages \in conversations : chat(c, messages)

\* The await sending the request again on a reply without content.
send_returns_retry(c, response) ==
    IF response.message.content = None
    THEN /\ llm' = [llm EXCEPT ![c] = Append(@, @[1])]
         /\ UNCHANGED <<pc, call, decodes, chatArgs, reply, resp, text>>
    ELSE /\ reply' = [reply EXCEPT ![c] = Some(response)]
         /\ text' = [text EXCEPT ![c] = Append(@, response.message.content[1])]
         /\ resp' = [resp EXCEPT ![c] =
                        IF call[c].entry = "http_request"
                        THEN Append(@, ok_response(response.message.content[1]))
                        ELSE @]
         /\ pc' = [pc EXCEPT ![c] = "done"]
         /\ UNCHANGED <<call, decodes, chatArgs, llm>>

\* chat.send().await yields the Response: chat returns the text, and
\* http_request, when it was the caller, returns the 200 response.
send_returns(c, response) ==
    /\ reply' = [reply EXCEPT ![c] = Some(response)]
    /\ LET reply_text == unwrap_or_default(response.message.content)
       IN  /\ text' = [text EXCEPT ![c] = Append(@, reply_text)]
           /\ IF call[c].entry = "http_request"
              THEN resp' = [resp EXCEPT ![c] = Append(@, ok_response(reply_text))]
              ELSE UNCHANGED resp
    /\ pc' = [pc EXCEPT ![c] = "done"]
    /\ UNCHANGED <<call, decodes, chatArgs, llm>>

\* The LLM canister answers the call suspended at the await.
SendReturns(c, responses) ==
    /\ pc[c] = "awaiting"
    /\ \E response \in responses : send_returns(c, response)

\* chat.send().await fails: send has no error value to return, the call traps
\* and the caller gets no response of the canister's making.
SendTraps(c) ==
    /\ pc[c] = "awaiting"
    /\ pc' = [pc EXCEPT ![c] = "trapped"]
    /\ UNCHANGED <<call, decodes, chatArgs, llm, reply, resp, text>>

\* One call, from the whole range of requests.
Init == InitOver({1})

Next ==
    \/ HttpRequestCall(1, Requests)
    \/ ChatCall(1, DirectConversations)
    \/ SendReturns(1, Replies)
    \/ SendTraps(1)

Spec == Init /\ [][Next]_vars

\* MaxCalls calls, interleaved at the await.
ConcCalls == 1..MaxCalls

ConcInit == InitOver(ConcCalls)

ConcNext ==
    \E c \in ConcCalls :
        \/ HttpRequestCall(c, ConcRequests)
        \/ ChatCall(c, ConcConversations)
        \/ SendReturns(c, ConcReplies)
        \/ SendTraps(c)

ConcSpec == ConcInit /\ [][ConcNext]_vars

\* The LLM canister answers every request sent to it, unless the call traps.
FairSpec == ConcSpec /\ \A c \in ConcCalls : WF_vars(SendReturns(c, ConcReplies))

-----------------------------------------------------------------------------
(* What the properties are stated with.  Nothing below is used by the      *)
(* state machine.                                                          *)

IsHttp(c) == call[c].entry = "http_request"

\* The lower-case form of the letters of OPTIONS and POST.
LowerCaseOf ==
    [ch \in {"O", "P", "T", "I", "N", "S"} |->
        IF ch = "O" THEN "o" ELSE IF ch = "P" THEN "p" ELSE IF ch = "T" THEN "t"
        ELSE IF ch = "I" THEN "i" ELSE IF ch = "N" THEN "n" ELSE "s"]

\* method spells word, each letter in either case.
EqualsIgnoringCase(method, word) ==
    /\ Len(method) = Len(word)
    /\ \A i \in 1..Len(word) : method[i] = word[i] \/ method[i] = LowerCaseOf[word[i]]

IsOptionsRequest(c) == IsHttp(c) /\ EqualsIgnoringCase(call[c].method, OPTIONS)

UrlBeginsWithChat(url) ==
    /\ Len(url) >= 5
    /\ url[1] = "/" /\ url[2] = "c" /\ url[3] = "h" /\ url[4] = "a" /\ url[5] = "t"

IsChatRequest(c) ==
    /\ IsHttp(c)
    /\ EqualsIgnoringCase(call[c].method, POST)
    /\ UrlBeginsWithChat(call[c].url)

\* The bodies written {"messages":[{"role":..,"content":..},..]}, and the
\* role and the content of their i-th message.
PlainPayloads == {JsonBody(JPayload(ms)) : ms \in BoundedSeq(RawMessages, MaxMsgs)}

IsPlainPayload(body) == body \in PlainPayloads

PayloadLen(body) == Len(body.v.o[1][2].a)

RoleAt(body, i) == body.v.o[1][2].a[i].o[1][2].s

ContentAt(body, i) == body.v.o[1][2].a[i].o[2][2].s

\* The bodies that are no IncomingPayload.
UndecodableBodies == {EmptyBody, GarbageBody} \cup {JsonBody(v) : v \in NoPayloads}

Undecodable(body) == body \in UndecodableBodies

PlainHeaders ==
    << <<"Content-Type", "text/plain">>, <<"Access-Control-Allow-Origin", "*">> >>

\* The turn the specification gives for a role and a content.
TurnFor(role, content) ==
    CASE role = "system" -> [role |-> "System", content |-> content]
      [] role = "assistant" ->
            [role |-> "Assistant", content |-> <<content>>, tool_calls |-> <<>>]
      [] role = "tool" -> [role |-> "Tool", content |-> content, tool_call_id |-> ""]
      [] OTHER -> [role |-> "User", content |-> content]

\* C1: on the chat route, a payload of messages is never refused for a role,
\* and each message becomes the turn of its role: "system" a System turn,
\* "assistant" an Assistant turn with the content present and no tool call,
\* "tool" a Tool turn with an empty tool_call_id, any other role (also "",
\* "System", a typo) a User turn, always with the content of the message.
C1_RoleMapping ==
    \A c \in DOMAIN pc :
        (IsChatRequest(c) /\ IsPlainPayload(call[c].body)) =>
            /\ pc[c] # "idle"
            /\ \A k \in 1..Len(resp[c]) : resp[c][k].status = 200
            /\ Len(chatArgs[c]) = 1
            /\ \A i \in 1..PayloadLen(call[c].body) :
                  i <= Len(chatArgs[c][1]) =>
                      chatArgs[c][1][i] =
                          TurnFor(RoleAt(call[c].body, i), ContentAt(call[c].body, i))

\* A payload with the roles "System" and "tool" has been mapped.
C1_Witness ==
    \E c \in DOMAIN pc :
        /\ IsChatRequest(c) /\ IsPlainPayload(call[c].body)
        /\ PayloadLen(call[c].body) = 2
        /\ RoleAt(call[c].body, 1) = "System" /\ RoleAt(call[c].body, 2) = "tool"
        /\ Len(chatArgs[c]) = 1
        /\ chatArgs[c][1][1].role = "User" /\ chatArgs[c][1][2].role = "Tool"

\* C2: the turns http_request passes to chat are as many as the messages of
\* the payload, and the i-th turn comes from the i-th message.
C2_LengthAndOrder ==
    \A c \in DOMAIN pc :
        (IsChatRequest(c) /\ IsPlainPayload(call[c].body)) =>
            /\ Len(chatArgs[c]) = 1
            /\ Len(chatArgs[c][1]) = PayloadLen(call[c].body)
            /\ \A i \in 1..Len(chatArgs[c][1]) :
                  /\ chatArgs[c][1][i].role =
                         TurnFor(RoleAt(call[c].body, i), "").role
                  /\ chatArgs[c][1][i].content =
                         IF chatArgs[c][1][i].role = "Assistant"
                         THEN <<ContentAt(call[c].body, i)>>
                         ELSE ContentAt(call[c].body, i)

\* Two messages that differ in role and content have been mapped, in order.
C2_Witness ==
    \E c \in DOMAIN pc :
        /\ IsChatRequest(c) /\ IsPlainPayload(call[c].body)
        /\ PayloadLen(call[c].body) = 2
        /\ RoleAt(call[c].body, 1) = "user" /\ ContentAt(call[c].body, 1) = "hi"
        /\ RoleAt(call[c].body, 2) = "system"
        /\ Len(chatArgs[c]) = 1
        /\ chatArgs[c][1] = <<[role |-> "User", content |-> "hi"],
                              [role |-> "System", content |-> "be brief"]>>

\* The conversation sent to the LLM canister is one turn longer than the
\* argument of chat, and the argument follows the first turn unchanged.
InputFollowsFirstTurn ==
    \A c \in DOMAIN pc :
        /\ Len(llm[c]) = Len(chatArgs[c])
        /\ \A k \in 1..Len(llm[c]) :
              /\ Len(llm[c][k].messages) = Len(chatArgs[c][k]) + 1
              /\ \A i \in 1..Len(chatArgs[c][k]) :
                    llm[c][k].messages[i + 1] = chatArgs[c][k][i]

FirstTurnIs(content) ==
    \A c \in DOMAIN pc :
        \A k \in 1..Len(llm[c]) :
            llm[c][k].messages[1] = [role |-> "System", content |-> content]

\* C3 as stated: the first turn is a System turn with the directive written
\* on one line, its two sentences separated by a space.
C3_AsStated ==
    /\ InputFollowsFirstTurn
    /\ FirstTurnIs("You are a helpful assistant. Answer user questions clearly and concisely.")

\* C3: the conversation sent to the LLM canister has one turn more than the
\* argument of chat; its first turn is a System turn with the directive, whose
\* two sentences are separated by a line break; the turns of the argument
\* follow unchanged and in order, a System turn among them included.
C3_PromptInjected ==
    /\ InputFollowsFirstTurn
    /\ FirstTurnIs("You are a helpful assistant.\nAnswer user questions clearly and concisely.")

\* A conversation that begins with a System turn of the caller has been sent.
C3_Witness ==
    \E c \in DOMAIN pc :
        /\ Len(llm[c]) = 1
        /\ Len(llm[c][1].messages) >= 3
        /\ llm[c][1].messages[1].role = "System"
        /\ llm[c][1].messages[2] = [role |-> "System", content |-> "be brief"]

\* C4: an OPTIONS request, in any letter case, with any URL and any body, is
\* answered 204 with an empty body and the three CORS headers, its body is
\* not decoded and nothing is sent to the LLM canister.
C4_Preflight ==
    \A c \in DOMAIN pc :
        IsOptionsRequest(c) =>
            /\ pc[c] = "done"
            /\ resp[c] =
                 << [status |-> 204,
                     headers |-> << <<"Access-Control-Allow-Origin", "*">>,
                                    <<"Access-Control-Allow-Methods", "POST, OPTIONS">>,
                                    <<"Access-Control-Allow-Headers", "Content-Type">> >>,
                     body |-> <<>>] >>
            /\ decodes[c] = 0
            /\ chatArgs[c] = <<>>
            /\ llm[c] = <<>>

\* "options" to /chat with a body that is a payload has been answered.
C4_Witness ==
    \E c \in DOMAIN pc :
        /\ IsHttp(c)
        /\ call[c].method = <<"o", "p", "t", "i", "o", "n", "s">>
        /\ call[c].url = <<"/", "c", "h", "a", "t">>
        /\ call[c].body = JsonBody(JPayload(<<hi>>))
        /\ Len(resp[c]) = 1 /\ resp[c][1].status = 204

\* "Invalid JSON: " in UTF-8.
InvalidJsonBytes == <<73, 110, 118, 97, 108, 105, 100, 32, 74, 83, 79, 78, 58, 32>>

\* C5: a POST to a URL that starts with /chat whose body is no payload is
\* answered 400, text/plain, with "Invalid JSON: " and the text of the
\* decoding error; no turn is mapped and nothing is sent to the LLM canister.
C5_BadRequest ==
    \A c \in DOMAIN pc :
        (IsChatRequest(c) /\ Undecodable(call[c].body)) =>
            /\ pc[c] = "done"
            /\ Len(resp[c]) = 1
            /\ resp[c][1].status = 400
            /\ resp[c][1].headers = PlainHeaders
            /\ Len(resp[c][1].body) > Len(InvalidJsonBytes)
            /\ SubSeq(resp[c][1].body, 1, Len(InvalidJsonBytes)) = InvalidJsonBytes
            /\ SubSeq(resp[c][1].body, Len(InvalidJsonBytes) + 1, Len(resp[c][1].body))
                  = into_bytes(Display(from_slice(call[c].body)))
            /\ chatArgs[c] = <<>>
            /\ llm[c] = <<>>

\* A POST to /chat with the body {} has been answered 400.
C5_Witness ==
    \E c \in DOMAIN pc :
        /\ IsChatRequest(c)
        /\ call[c].body = JsonBody(JObj(<<>>))
        /\ Len(resp[c]) = 1 /\ resp[c][1].status = 400

\* The UTF-8 bytes of the text of a Response of the LLM canister.
ReplyBytes(response) ==
    CASE response.message.content = <<>> -> <<>>
      [] response.message.content = << <<"H", "i">> >> -> <<72, 105>>
      [] response.message.content = << <<"U+00E9">> >> -> <<195, 169>>

\* C6: on the chat route, once the LLM canister has replied to a call whose
\* body was decoded, the response is 200, text/plain, with the UTF-8 bytes of
\* the reply's text; a reply without content gives 200 with an empty body.
C6_Reply ==
    \A c \in DOMAIN pc :
        (IsChatRequest(c) /\ reply[c] # None) =>
            /\ pc[c] = "done"
            /\ resp[c] = << [status |-> 200, headers |-> PlainHeaders,
                             body |-> ReplyBytes(reply[c][1])] >>

\* A reply without content has been turned into a response.
C6_Witness ==
    \E c \in DOMAIN pc :
        /\ IsChatRequest(c)
        /\ reply[c] = << [message |-> [content |-> <<>>]] >>
        /\ Len(resp[c]) = 1 /\ resp[c][1].status = 200 /\ resp[c][1].body = <<>>

\* C7: a request that is neither an OPTIONS request nor a POST to a URL that
\* starts with /chat is answered 404, text/plain, "Not Found"; its body is
\* not decoded and nothing is sent to the LLM canister.
C7_NotFound ==
    \A c \in DOMAIN pc :
        (IsHttp(c) /\ ~IsOptionsRequest(c) /\ ~IsChatRequest(c)) =>
            /\ pc[c] = "done"
            /\ resp[c] = << [status |-> 404, headers |-> PlainHeaders,
                             body |-> <<78, 111, 116, 32, 70, 111, 117, 110, 100>>] >>
            /\ decodes[c] = 0
            /\ chatArgs[c] = <<>>
            /\ llm[c] = <<>>

\* GET /chat has been answered 404.
C7_Witness ==
    \E c \in DOMAIN pc :
        /\ IsHttp(c)
        /\ call[c].method = <<"G", "E", "T">>
        /\ call[c].url = <<"/", "c", "h", "a", "t">>
        /\ Len(resp[c]) = 1 /\ resp[c][1].status = 404

\* C8: a POST in any letter case to a URL that starts with /chat goes to the
\* chat handler: its body is decoded, and its status is 200 or 400.
C8_ChatRouting ==
    \A c \in DOMAIN pc :
        IsChatRequest(c) =>
            /\ decodes[c] = 1
            /\ \A k \in 1..Len(resp[c]) : resp[c][k].status \in {200, 400}
            /\ pc[c] = "done" => Len(resp[c]) = 1

\* "post" to /chatbot has been answered 200.
C8_Witness ==
    \E c \in DOMAIN pc :
        /\ IsHttp(c)
        /\ call[c].method = <<"p", "o", "s", "t">>
        /\ call[c].url = <<"/", "c", "h", "a", "t", "b", "o", "t">>
        /\ Len(resp[c]) = 1 /\ resp[c][1].status = 200

\* What holds of an http_request call in every state: at most one response,
\* which is there exactly when the call is done and has one of the four
\* statuses; nothing is sent to the LLM canister for a 204, 400 or 404, and
\* one request, never a second one, for a call that waits or has answered 200.
OneResponseOneRequest(c) ==
    IsHttp(c) =>
        /\ Len(resp[c]) <= 1
        /\ Len(llm[c]) <= 1
        /\ (pc[c] = "done") = (Len(resp[c]) = 1)
        /\ \A k \in 1..Len(resp[c]) :
              /\ resp[c][k].status \in {204, 200, 400, 404}
              /\ resp[c][k].status # 200 => llm[c] = <<>> /\ reply[c] = None
              /\ resp[c][k].status = 200 => Len(llm[c]) = 1 /\ reply[c] # None
        /\ pc[c] \in {"awaiting", "trapped"} => Len(llm[c]) = 1

\* C9: an http_request call gets exactly one response, of status 204, 200,
\* 400 or 404, once the LLM canister has answered when it was asked (or the
\* call trapped at the await); 204, 400 and 404 are given without a request
\* to the LLM canister, 200 after exactly one.
C9_OneResponse ==
    /\ [](\A c \in ConcCalls : OneResponseOneRequest(c))
    /\ \A c \in ConcCalls :
          IsHttp(c) ~> (pc[c] = "trapped" \/ (pc[c] = "done" /\ Len(resp[c]) = 1))

\* A call has waited for the LLM canister and has been answered 200.
C9_Witness ==
    \E c \in DOMAIN pc :
        /\ IsHttp(c) /\ pc[c] = "done"
        /\ Len(llm[c]) = 1 /\ reply[c] # None
        /\ Len(resp[c]) = 1 /\ resp[c][1].status = 200

=============================================================================
